---- MODULE Spec2Model ----
(***************************************************************************)
(* The persistence writer of carbon (lib/carbon/writer.py): the scheduler  *)
(* optimalWriteOrder, the drain loop writeCachedDataPoints, the outer loop *)
(* writeForever, and the environment they run against (the receiver that   *)
(* fills MetricCache, the storage backend, the wall clock).                *)
(*                                                                         *)
(* A datapoint is the pair <<metric, k>>: the k-th ingest event of the     *)
(* metric.  The cache keeps, per metric, the sequence of the k's queued.   *)
(* Time is in whole seconds.  Log calls have no effect on the state and    *)
(* are left out, and so is seen_metrics, which only feeds the metrics log. *)
(***************************************************************************)
EXTENDS Integers, Sequences, FiniteSets, TLC

\* ------------------------------------------------------------ bounds
Metrics == {"A", "B", "C"}

\* ingest events the receiver delivers in one behaviour (Spec)
MaxPoints == 3
\* ingest events the receiver delivers in one behaviour (SpecCreates)
MaxCreatePoints == 6
\* clock advances (sleeps and ticks) in one behaviour
MaxTicks == 2
\* the wall clock when the writer starts, in seconds since the epoch
StartTime == 100
\* schema reloads in one behaviour
MaxReloads == 2
\* ingest events the receiver delivers in one behaviour (SpecReload)
MaxReloadPoints == 2
\* the errors counter is followed up to this value and stays there
MaxErrors == 4
\* datapoints the cache holds at most while the receiver never stops (SpecStop)
MaxBacklog == 2
\* settings.MAX_UPDATES_PER_SECOND_ON_SHUTDOWN of the runs
ShutdownUpdates == 1

\* ------------------------------------------------------------ program constants
\* writer.py:64, the length of the create window in seconds
CreateWindow == 60

VARIABLES
  settings,            \* carbon.conf settings read by the writer
  feed,                \* the metrics the receiver delivers
  ingestLeft,          \* ingest events the receiver has still to deliver
  running,             \* reactor.running
  now,                 \* time.time(), whole seconds
  ticks,               \* clock advances so far
  cache,               \* MetricCache: metric -> queued datapoints (<<>>: no entry)
  stored,              \* metric -> number of ingest events so far
  cacheTooFull,        \* state.cacheTooFull
  archives,            \* metrics whose archive exists in the backend
  schemas,             \* the published storage-schema sequence
  agg_schemas,         \* the published aggregation-schema sequence
  timers,              \* the reload LoopingCalls that are running
  lastCreateInterval,  \* writer.py global
  createCount,         \* writer.py global
  pc,                  \* where the writer thread is
  metrics,             \* optimalWriteOrder: the part of the snapshot not yet iterated
  existing_metrics,    \* optimalWriteOrder: batch_exists result of the snapshot
  cur,                 \* the triple optimalWriteOrder has just yielded
  metric_datapoints,   \* writeCachedDataPoints: the batch map
  dataWritten,         \* writeCachedDataPoints local
  updates,             \* writeCachedDataPoints local
  lastSecond,          \* writeCachedDataPoints local
  instrumentation,     \* the counters creates, errors, committedPoints, batchSizes
  fate,                \* history: datapoint -> what became of it
  sent,                \* history: datapoint -> number of update payloads it was in
  hist                 \* history: the other observations the properties read

vars == <<settings, feed, ingestLeft, running, agg_schemas, timers, now, ticks, cache, stored, cacheTooFull,
          archives, schemas, lastCreateInterval, createCount, pc, metrics,
          existing_metrics, cur, metric_datapoints, dataWritten, updates,
          lastSecond, instrumentation, fate, sent, hist>>

envVars == <<settings, feed, ingestLeft, running, schemas, agg_schemas, timers>>
cacheVars == <<cache, stored, cacheTooFull>>
clockVars == <<now, ticks>>
createVars == <<lastCreateInterval, createCount>>
genVars == <<metrics, existing_metrics>>
passVars == <<metric_datapoints, dataWritten>>
rateVars == <<updates, lastSecond>>

\* ------------------------------------------------------------ helpers
Range(s) == {s[i] : i \in 1..Len(s)}

RECURSIVE SumLen(_, _)
SumLen(f, S) ==
  IF S = {} THEN 0
  ELSE LET m == CHOOSE x \in S : TRUE IN Len(f[m]) + SumLen(f, S \ {m})

Perms(S) == {p \in [1..Cardinality(S) -> S] : \A i, j \in 1..Cardinality(S) : p[i] = p[j] => i = j}

Front(s) == SubSeq(s, 1, Len(s) - 1)

\* the datapoints <<metric, k>> of a popped queue
PointsOf(metric, datapoints) == {<<metric, k>> : k \in Range(datapoints)}

\* the datapoints held in the batch map
BatchPoints(md) == UNION {PointsOf(m, md[m]) : m \in DOMAIN md}

SetFate(f, ps, what) == [p \in DOMAIN f |-> IF p \in ps THEN what ELSE f[p]]

NoTriple == [metric |-> "", datapoints |-> <<>>, dbFileExists |-> FALSE]
EmptyMap == [m \in {} |-> <<>>]

\* ------------------------------------------------------------ MetricCache
\* MetricCache.size
CacheSize(c) == SumLen(c, Metrics)

\* bool(MetricCache): the dict has an entry
CacheNonEmpty(c) == \E m \in Metrics : c[m] # <<>>

\* MetricCache.counts() in one of the orders the dict may iterate in
CountsOrders(c) ==
  LET keys == {m \in Metrics : c[m] # <<>>}
  IN {[i \in 1..Cardinality(keys) |-> <<p[i], Len(c[p[i]])>>] : p \in Perms(keys)}

\* MetricCache.isFull()
IsFull(size) == size >= settings.MAX_CACHE_SIZE

\* writer.py:35 and :55, MetricCache.size < settings.MAX_CACHE_SIZE * 0.95
BelowLowWatermark(size) == size * 100 < settings.MAX_CACHE_SIZE * 95

\* ------------------------------------------------------------ storage schemas
DefaultSchemas == <<[name |-> "ab", pattern |-> {"A", "B"}, archives |-> <<1>>],
                    [name |-> "default", pattern |-> Metrics, archives |-> <<1>>]>>
PartialSchemas == <<[name |-> "ab", pattern |-> {"A", "B"}, archives |-> <<1>>]>>

\* a storage-schema file after an edit
NewSchemas == <<[name |-> "a", pattern |-> {"A"}, archives |-> <<2>>],
                [name |-> "default", pattern |-> Metrics, archives |-> <<3>>]>>

\* aggregation schemas: archives is the pair (xFilesFactor, aggregationMethod)
DefaultAggSchemas == <<[name |-> "default", pattern |-> Metrics, archives |-> <<1, "average">>]>>
SumAggSchemas == <<[name |-> "sum", pattern |-> Metrics, archives |-> <<0, "sum">>]>>

\* writer.py:105-109, the archives of the first schema that matches, <<>> for none
RECURSIVE FirstMatch(_, _)
FirstMatch(ss, metric) ==
  IF ss = <<>> THEN <<>>
  ELSE IF metric \in Head(ss).pattern THEN Head(ss).archives
  ELSE FirstMatch(Tail(ss), metric)

\* the metric resolved against the sequence loaded at import, reloads ignored
StaleConfig(metric) == FirstMatch(DefaultSchemas, metric)

ArchiveConfig(metric) == FirstMatch(schemas, metric)

\* loadStorageSchemas() / loadAggregationSchemas(): one of the sequences the file
\* may hold, or a parse failure
LoadOutcomes(seqs) ==
  {[ok |-> TRUE, value |-> q] : q \in seqs} \cup {[ok |-> FALSE, value |-> <<>>]}

\* the global assigned whatever the load gave
ReloadedOrEmpty(old, load) == load.value

\* writer.py:212-216 and :221-225, the global after the reload
Reloaded(old, load) == IF load.ok THEN load.value ELSE old

\* ------------------------------------------------------------ optimalWriteOrder
\* list.sort(key=item[1], reverse=True): stable, largest queue first
RECURSIVE InsertDesc(_, _)
InsertDesc(x, s) ==
  IF s = <<>> THEN <<x>>
  ELSE IF Head(s)[2] >= x[2] THEN <<Head(s)>> \o InsertDesc(x, Tail(s))
  ELSE <<x>> \o s

RECURSIVE SortDesc(_)
SortDesc(s) == IF s = <<>> THEN <<>> ELSE InsertDesc(s[Len(s)], SortDesc(Front(s)))

\* the snapshot left as MetricCache.counts() gave it
Unsorted(s) == s

\* writer.py:45-52, the order the snapshot is iterated in
WriteOrder(s) == IF settings.ENABLE_BATCHED_WRITES THEN s ELSE SortDesc(s)

\* every metric taken as having no archive
NeverExists(metric) == FALSE

\* writer.py:58
DbFileExists(metric) ==
  IF settings.ENABLE_BATCHED_WRITES THEN metric \in existing_metrics
  ELSE metric \in archives

\* writer.py:64
CreateWindowExpired(t) == t - lastCreateInterval >= CreateWindow

\* the budget never taken as used up
NeverExceeded(count) == FALSE

\* the budget taken as used up one create late
ExceededLate(count) == count > settings.MAX_CREATES_PER_MINUTE + 1

\* writer.py:68
CreateBudgetExceeded(count) == count >= settings.MAX_CREATES_PER_MINUTE

\* the event fired whenever the size is below the watermark, the flag not looked at
EmitWhenBelow(size) == BelowLowWatermark(size)

\* writer.py:55
SpaceAvailable(size) == cacheTooFull /\ BelowLowWatermark(size)

\* the cache with the metric's queue left where it is
NotPopped(c, metric) == c

\* writer.py:72 and :79, the cache after MetricCache.pop(metric)
Popped(c, metric) == [c EXCEPT ![metric] = <<>>]

\* state.cacheTooFull once events.cacheSpaceAvailable() has run its handlers
AfterSpaceAvailable == FALSE

\* ------------------------------------------------------------ the rate limiter
\* writer.py:150-158 and :183-191: the counter and lastSecond after a commit of
\* n operations that ended in second t2, and whether the writer sleeps
RateLimit(n, t2) ==
  IF t2 # lastSecond
  THEN [updates |-> 0, lastSecond |-> t2, sleep |-> FALSE]
  ELSE [updates |-> updates + n, lastSecond |-> lastSecond,
        sleep |-> updates + n >= settings.MAX_UPDATES_PER_SECOND]

\* ------------------------------------------------------------ history
\* create calls no older than one window
TrimLog(log, t) == SelectSeq(log, LAMBDA c : t - c < CreateWindow)

NoHist == [emitted |-> 0, crossings |-> 0, secCommits |-> 0, secPeak |-> 0,
           createLog |-> <<>>,
           windowCreates |-> 0, createCalls |-> [m \in Metrics |-> 0],
           createFails |-> [m \in Metrics |-> 0], yielded |-> <<>>, raised |-> FALSE,
           stopPc |-> "none", reloads |-> 0, reloadFails |-> 0, lastReload |-> "none",
           passSchemas |-> {}, lookup |-> <<>>, passCalls |-> [m \in Metrics |-> 0]]

\* a cache size no run reaches, an update budget no run uses up
BigCache == 100

\* the clock moves on by d seconds
Advance(d) ==
  /\ ticks < MaxTicks
  /\ now' = now + d
  /\ ticks' = ticks + 1

\* n commits are made in the current second
HistCommit(h, n) ==
  [h EXCEPT !.secCommits = @ + n,
            !.secPeak = IF h.secCommits + n > @ THEN h.secCommits + n ELSE @]

\* an update call of the current pass carries the metrics ms
HistUpdate(h, ms) ==
  [h EXCEPT !.passCalls = [m \in Metrics |-> IF m \in ms THEN @[m] + 1 ELSE @[m]]]

HistAdvance(h, d) == [h EXCEPT !.secCommits = 0, !.createLog = TrimLog(@, now + d)]

\* ------------------------------------------------------------ initial states
\* the settings a run is configured with
SettingsOf(batched, creates, ups, size) ==
  [ENABLE_BATCHED_WRITES |-> batched, MAX_CREATES_PER_MINUTE |-> creates,
   MAX_UPDATES_PER_SECOND |-> ups, MAX_CACHE_SIZE |-> size,
   MAX_UPDATES_PER_SECOND_ON_SHUTDOWN |-> ShutdownUpdates]

\* writer.py:31-34 and the locals of a thread that has not started
InitWriter ==
  /\ running = TRUE
  /\ agg_schemas = DefaultAggSchemas
  /\ timers = {"storage", "aggregation"}
  /\ now = StartTime
  /\ ticks = 0
  /\ cache = [m \in Metrics |-> <<>>]
  /\ stored = [m \in Metrics |-> 0]
  /\ cacheTooFull = FALSE
  /\ lastCreateInterval = 0
  /\ createCount = 0
  /\ pc = "idle"
  /\ metrics = <<>>
  /\ existing_metrics = {}
  /\ cur = NoTriple
  /\ metric_datapoints = EmptyMap
  /\ dataWritten = FALSE
  /\ updates = 0
  /\ lastSecond = 0
  /\ instrumentation = [creates |-> 0, errors |-> 0, committedPoints |-> 0,
                        batchSizes |-> <<>>]
  /\ fate = [p \in {} |-> "cache"]
  /\ sent = [p \in {} |-> 0]
  /\ hist = NoHist

\* either write mode, a budget of two creates a minute and one update a second,
\* a cache that never fills
Init ==
  /\ InitWriter
  /\ settings \in {SettingsOf(b, 2, 1, BigCache) : b \in BOOLEAN}
  /\ feed = Metrics
  /\ ingestLeft = MaxPoints
  /\ archives \in {{}, {"A"}}
  /\ schemas \in {DefaultSchemas, PartialSchemas}

\* non-batched mode, a budget of four creates a minute, one metric, no archive
InitCreates ==
  /\ InitWriter
  /\ settings = SettingsOf(FALSE, 4, BigCache, BigCache)
  /\ feed = {"A"}
  /\ ingestLeft = MaxCreatePoints
  /\ archives = {}
  /\ schemas = DefaultSchemas

\* a cache of two datapoints, so that it fills and drains
InitCache ==
  /\ InitWriter
  /\ settings \in {SettingsOf(b, 2, BigCache, 2) : b \in BOOLEAN}
  /\ feed = Metrics
  /\ ingestLeft = MaxPoints
  /\ archives \in {{"A", "B"}, Metrics}
  /\ schemas = DefaultSchemas

\* either write mode, every metric with an archive, a receiver that delivers
\* datapoints until it stops
InitStop ==
  /\ InitWriter
  /\ settings \in {SettingsOf(b, 2, 1, BigCache) : b \in BOOLEAN}
  /\ feed = {"A"}
  /\ ingestLeft = 0
  /\ archives = Metrics
  /\ schemas = DefaultSchemas

\* either write mode, two metrics without archive, a create budget that admits
\* both in one pass, schema files that change
InitReload ==
  /\ InitWriter
  /\ settings \in {SettingsOf(b, 4, BigCache, BigCache) : b \in BOOLEAN}
  /\ feed = {"A", "C"}
  /\ ingestLeft = MaxReloadPoints
  /\ archives = {}
  /\ schemas = DefaultSchemas

\* ------------------------------------------------------------ the environment
\* the receiver stores one datapoint: MetricCache.store, which raises cacheFull
\* when the cache has become full
Store(metric) ==
  /\ metric \in feed
  /\ ingestLeft > 0
  /\ ingestLeft' = ingestLeft - 1
  /\ stored' = [stored EXCEPT ![metric] = @ + 1]
  /\ cache' = [cache EXCEPT ![metric] = Append(@, stored[metric] + 1)]
  /\ cacheTooFull' = (cacheTooFull \/ IsFull(CacheSize(cache) + 1))
  /\ fate' = (<<metric, stored[metric] + 1>> :> "cache") @@ fate
  /\ sent' = (<<metric, stored[metric] + 1>> :> 0) @@ sent
  /\ UNCHANGED <<settings, feed, running, schemas, agg_schemas, timers, clockVars,
                 archives, createVars, pc, genVars, cur, passVars, rateVars,
                 instrumentation, hist>>

\* the receiver stores a datapoint beyond those whose history is followed (it is
\* queued as 0), while the cache holds fewer than MaxBacklog datapoints
Refill(metric) ==
  /\ metric \in feed
  /\ CacheSize(cache) < MaxBacklog
  /\ cache' = [cache EXCEPT ![metric] = Append(@, 0)]
  /\ cacheTooFull' = (cacheTooFull \/ IsFull(CacheSize(cache) + 1))
  /\ UNCHANGED <<envVars, stored, clockVars, archives, createVars, pc, genVars, cur,
                 passVars, rateVars, instrumentation, fate, sent, hist>>

\* the receiver stops delivering datapoints
ReceiverStops ==
  /\ feed # {}
  /\ feed' = {}
  /\ UNCHANGED <<settings, ingestLeft, running, schemas, agg_schemas, timers, clockVars,
                 cacheVars, archives, createVars, pc, genVars, cur, passVars, rateVars,
                 instrumentation, fate, sent, hist>>

\* writer.py:210-216, the storage reload timer fires
ReloadStorageSchemas(load) ==
  /\ "storage" \in timers
  /\ hist.reloads < MaxReloads
  /\ schemas' = Reloaded(schemas, load)
  /\ hist' = [hist EXCEPT !.reloads = @ + 1,
                          !.reloadFails = IF load.ok THEN @ ELSE @ + 1,
                          !.lastReload = IF load.ok THEN "ok" ELSE "failed"]
  /\ UNCHANGED <<settings, feed, ingestLeft, running, agg_schemas, timers, clockVars,
                 cacheVars, archives, createVars, pc, genVars, cur, passVars, rateVars,
                 instrumentation, fate, sent>>

\* writer.py:219-225, the aggregation reload timer fires
ReloadAggregationSchemas(load) ==
  /\ "aggregation" \in timers
  /\ hist.reloads < MaxReloads
  /\ agg_schemas' = Reloaded(agg_schemas, load)
  /\ hist' = [hist EXCEPT !.reloads = @ + 1,
                          !.reloadFails = IF load.ok THEN @ ELSE @ + 1,
                          !.lastReload = IF load.ok THEN "ok" ELSE "failed"]
  /\ UNCHANGED <<settings, feed, ingestLeft, running, schemas, timers, clockVars,
                 cacheVars, archives, createVars, pc, genVars, cur, passVars, rateVars,
                 instrumentation, fate, sent>>

\* time passes: a second at any point, or all but a second of a create window
\* between two passes of the writer
TickSteps == {1, CreateWindow - 1}

Tick(d) ==
  /\ d > 1 => pc \in {"idle", "drain", "sleep"}
  /\ Advance(d)
  /\ hist' = HistAdvance(hist, d)
  /\ UNCHANGED <<envVars, cacheVars, archives, createVars, pc, genVars, cur,
                 passVars, rateVars, instrumentation, fate, sent>>

\* writer.py:228-233, the hook that runs before shutdown
ShutdownModifyUpdateSpeed(st) ==
  [st EXCEPT !.MAX_UPDATES_PER_SECOND = st.MAX_UPDATES_PER_SECOND_ON_SHUTDOWN]

\* the reactor shuts down: the hook runs, stopService stops the reload timers
\* (writer.py:249-252), reactor.running becomes false
Stop ==
  /\ running
  /\ settings' = ShutdownModifyUpdateSpeed(settings)
  /\ timers' = {}
  /\ running' = FALSE
  /\ hist' = [hist EXCEPT !.stopPc = pc]
  /\ UNCHANGED <<feed, ingestLeft, schemas, agg_schemas, clockVars, cacheVars, archives,
                 createVars, pc, genVars, cur, passVars, rateVars, instrumentation,
                 fate, sent>>

\* ------------------------------------------------------------ writeForever
\* the loop entered whatever the flag says
RunsAnyway == TRUE

\* writer.py:201, the test of the outer loop
LoopTest == running

\* writer.py:201-203 and :89-90: the loop test, and the entry of writeCachedDataPoints
WriteForever ==
  /\ pc = "idle"
  /\ IF LoopTest
     THEN pc' = "drain" /\ updates' = 0 /\ lastSecond' = 0
     ELSE pc' = "exited" /\ UNCHANGED rateVars
  /\ UNCHANGED <<envVars, clockVars, cacheVars, archives, createVars, genVars, cur,
                 passVars, instrumentation, fate, sent, hist>>

\* writer.py:207, time.sleep(1) after writeCachedDataPoints returned or raised
Sleep ==
  /\ pc = "sleep"
  /\ pc' = "idle"
  /\ Advance(1)
  /\ hist' = HistAdvance(hist, 1)
  /\ UNCHANGED <<envVars, cacheVars, archives, createVars, genVars, cur, passVars,
                 rateVars, instrumentation, fate, sent>>

\* ------------------------------------------------------------ writeCachedDataPoints
\* writer.py:91, the cache is empty: writeCachedDataPoints returns
CacheEmpty ==
  /\ pc = "drain"
  /\ ~CacheNonEmpty(cache)
  /\ pc' = "sleep"
  /\ UNCHANGED <<envVars, clockVars, cacheVars, archives, createVars, genVars, cur,
                 passVars, rateVars, instrumentation, fate, sent, hist>>

\* writer.py:91-95 and :43-52, a pass starts: the snapshot is taken and ordered
StartPass ==
  /\ pc = "drain"
  /\ CacheNonEmpty(cache)
  /\ \E order \in CountsOrders(cache) : metrics' = WriteOrder(order)
  /\ existing_metrics' = IF settings.ENABLE_BATCHED_WRITES
                         THEN {m \in archives : cache[m] # <<>>} ELSE {}
  /\ dataWritten' = FALSE
  /\ metric_datapoints' = EmptyMap
  /\ hist' = [hist EXCEPT !.yielded = <<>>, !.passSchemas = {}, !.lookup = <<>>,
                          !.passCalls = [m \in Metrics |-> 0]]
  /\ pc' = "gen"
  /\ UNCHANGED <<envVars, clockVars, cacheVars, archives, createVars, cur, rateVars,
                 instrumentation, fate, sent>>

\* writer.py:54-84, one iteration of the scheduler's loop
OptimalWriteOrderStep ==
  /\ pc = "gen"
  /\ metrics # <<>>
  /\ LET metric == Head(metrics)[1]
         queueSize == Head(metrics)[2]
         size == CacheSize(cache)
         emit == SpaceAvailable(size)
         flag == IF emit THEN AfterSpaceAvailable ELSE cacheTooFull
         dbFileExists == DbFileExists(metric)
         reset == ~dbFileExists /\ CreateWindowExpired(now)
         drop == ~dbFileExists /\ ~reset /\ CreateBudgetExceeded(createCount + 1)
         datapoints == cache[metric]
         crossed == flag /\ ~BelowLowWatermark(size)
                         /\ BelowLowWatermark(size - Len(datapoints))
         h1 == [hist EXCEPT !.emitted = IF emit THEN @ + 1 ELSE @,
                            !.crossings = IF crossed THEN @ + 1 ELSE @,
                            !.windowCreates = IF reset THEN 0 ELSE @]
     IN /\ cacheTooFull' = flag
        /\ createCount' = IF dbFileExists THEN createCount
                          ELSE IF reset THEN 1 ELSE createCount + 1
        /\ lastCreateInterval' = IF reset THEN now ELSE lastCreateInterval
        /\ metrics' = Tail(metrics)
        /\ cache' = Popped(cache, metric)
        /\ IF drop
           THEN /\ fate' = SetFate(fate, PointsOf(metric, datapoints), "budget")
                /\ hist' = h1
                /\ UNCHANGED <<pc, cur>>
           ELSE IF datapoints = <<>>
           THEN /\ hist' = h1
                /\ UNCHANGED <<pc, cur, fate>>
           ELSE /\ fate' = SetFate(fate, PointsOf(metric, datapoints), "held")
                /\ cur' = [metric |-> metric, datapoints |-> datapoints,
                           dbFileExists |-> dbFileExists]
                /\ hist' = [h1 EXCEPT !.yielded = Append(@, queueSize)]
                /\ pc' = "body"
  /\ UNCHANGED <<envVars, clockVars, stored, archives, existing_metrics, passVars,
                 rateVars, instrumentation, sent>>

\* writer.py:54, the scheduler is exhausted
OptimalWriteOrderDone ==
  /\ pc = "gen"
  /\ metrics = <<>>
  /\ pc' = "post"
  /\ UNCHANGED <<envVars, clockVars, cacheVars, archives, createVars, genVars, cur,
                 passVars, rateVars, instrumentation, fate, sent, hist>>

\* writer.py:105-109, the yielded metric is looked up in the published sequence
HistLookup(h) ==
  [h EXCEPT !.passSchemas = @ \cup {schemas},
            !.lookup = <<[metric |-> cur.metric, config |-> ArchiveConfig(cur.metric),
                          published |-> schemas]>>]

\* the exception swallowed inside the pass, which goes on with the next metric
RaiseAndGoOn(why) ==
  /\ fate' = SetFate(fate, PointsOf(cur.metric, cur.datapoints), why)
  /\ cur' = NoTriple
  /\ metrics' = metrics
  /\ metric_datapoints' = metric_datapoints
  /\ pc' = "gen"

\* an exception leaves writeCachedDataPoints: the popped datapoints of the yielded
\* metric and of the batch map are gone; writeForever logs it (writer.py:204-205)
Raise(why) ==
  /\ fate' = SetFate(SetFate(fate, BatchPoints(metric_datapoints), "aborted"),
                     PointsOf(cur.metric, cur.datapoints), why)
  /\ cur' = NoTriple
  /\ metrics' = <<>>
  /\ metric_datapoints' = EmptyMap
  /\ pc' = "sleep"

\* writer.py:117-118, no storage schema matches the new metric
NoSchemaMatch ==
  /\ pc = "body"
  /\ ~cur.dbFileExists
  /\ ArchiveConfig(cur.metric) = <<>>
  /\ Raise("noschema")
  /\ dataWritten' = TRUE
  /\ hist' = HistLookup(hist)
  /\ UNCHANGED <<envVars, clockVars, cacheVars, archives, createVars,
                 existing_metrics, rateVars, instrumentation, sent>>

\* what backend.create may do: succeed, raise OSError(EEXIST), raise another
\* OSError, raise an exception that is no OSError
CreateOutcomes == {"ok", "eexist", "oserror", "raise"}

CreateCases == IF cur.dbFileExists THEN {"none"} ELSE CreateOutcomes

\* the archives after backend.create
Created(co) == IF co \in {"ok", "eexist"} THEN archives \cup {cur.metric} ELSE archives

\* a create that raised, already-exists included, counted as an error as well
CountCreateStrict(co) ==
  IF co = "none" THEN instrumentation
  ELSE IF co = "ok" THEN [instrumentation EXCEPT !.creates = @ + 1]
  ELSE [instrumentation EXCEPT !.creates = @ + 1, !.errors = @ + 1]

\* writer.py:127
CountCreate(co) ==
  IF co = "none" THEN instrumentation
  ELSE [instrumentation EXCEPT !.creates = @ + 1]

HistCreate(h, co) ==
  IF co = "none" THEN h
  ELSE [HistLookup(h) EXCEPT !.createCalls[cur.metric] = @ + 1,
                 !.createFails[cur.metric] = IF co \in {"oserror", "raise"} THEN @ + 1 ELSE @,
                 !.createLog = Append(@, now),
                 !.windowCreates = @ + 1,
                 !.raised = @ \/ co # "ok"]

\* the failure not counted
CountNoError(ins) == ins

\* writer.py:140 and :170, instrumentation.increment('errors')
CountError(ins) == [ins EXCEPT !.errors = IF @ < MaxErrors THEN @ + 1 ELSE @]

\* the new metric has a schema
CanCreate == cur.dbFileExists \/ ArchiveConfig(cur.metric) # <<>>

\* writer.py:122-123, backend.create raises an exception that is no OSError
CreateRaises ==
  /\ pc = "body"
  /\ ~cur.dbFileExists
  /\ CanCreate
  /\ Raise("createraise")
  /\ dataWritten' = TRUE
  /\ hist' = HistCreate(hist, "raise")
  /\ UNCHANGED <<envVars, clockVars, cacheVars, archives, createVars,
                 existing_metrics, rateVars, instrumentation, sent>>

\* the batch map started afresh with the metric
OverwriteBatch(md, metric, datapoints) == (metric :> datapoints)

\* writer.py:130
PutBatch(md, metric, datapoints) == (metric :> datapoints) @@ md

\* the payload without its first datapoint
DropFirst(datapoints) == Tail(datapoints)

\* writer.py:134, the datapoints handed to update_many
UpdatePayload(datapoints) == datapoints

\* writer.py:96-130, batched mode: create if new, then put into the batch map
Accumulate(co) ==
  /\ pc = "body"
  /\ settings.ENABLE_BATCHED_WRITES
  /\ CanCreate
  /\ co \in CreateCases \ {"raise"}
  /\ archives' = Created(co)
  /\ instrumentation' = CountCreate(co)
  /\ hist' = HistCreate(hist, co)
  /\ metric_datapoints' = PutBatch(metric_datapoints, cur.metric, cur.datapoints)
  /\ dataWritten' = TRUE
  /\ cur' = NoTriple
  /\ pc' = "gen"
  /\ UNCHANGED <<envVars, clockVars, cacheVars, createVars, genVars, rateVars,
                 fate, sent>>

\* writer.py:96-158, non-batched mode: create if new, update_many, rate limit
UpdateMany(co, ok) ==
  /\ pc = "body"
  /\ ~settings.ENABLE_BATCHED_WRITES
  /\ CanCreate
  /\ co \in CreateCases \ {"raise"}
  /\ ok => cur.metric \in Created(co)
  /\ archives' = Created(co)
  /\ dataWritten' = TRUE
  /\ cur' = NoTriple
  /\ pc' = "gen"
  /\ LET payload == PointsOf(cur.metric, UpdatePayload(cur.datapoints))
     IN /\ sent' = [p \in DOMAIN sent |-> IF p \in payload THEN sent[p] + 1 ELSE sent[p]]
        /\ IF ok
           THEN LET rl == RateLimit(1, now)
                    h1 == HistCommit(HistUpdate(HistCreate(hist, co), {cur.metric}), 1)
                IN /\ fate' = SetFate(fate, payload, "committed")
                   /\ instrumentation' = [CountCreate(co) EXCEPT
                                            !.committedPoints = @ + Len(cur.datapoints)]
                   /\ updates' = rl.updates
                   /\ lastSecond' = rl.lastSecond
                   /\ IF rl.sleep
                      THEN Advance(1) /\ hist' = HistAdvance(h1, 1)
                      ELSE UNCHANGED clockVars /\ hist' = h1
           ELSE /\ fate' = SetFate(fate, payload, "failed")
                /\ instrumentation' = CountError(CountCreate(co))
                /\ hist' = [HistUpdate(HistCreate(hist, co), {cur.metric}) EXCEPT
                              !.raised = TRUE]
                /\ UNCHANGED <<clockVars, rateVars>>
  /\ UNCHANGED <<envVars, cacheVars, createVars, genVars, metric_datapoints>>

\* a committed batch counted as a single commit of one datapoint per metric
CountBatchAsOne(ins, md) ==
  [ins EXCEPT !.committedPoints = @ + Cardinality(DOMAIN md),
              !.batchSizes = Append(@, 1)]

\* writer.py:172-175, the counters after a batch that was committed
CountBatch(ins, md) ==
  [ins EXCEPT !.committedPoints = @ + SumLen(md, DOMAIN md),
              !.batchSizes = Append(@, Cardinality(DOMAIN md))]

\* writer.py:160-192, batched mode: the batch map is written, rate limit
BatchUpdateMany(ok) ==
  /\ pc = "post"
  /\ metric_datapoints # EmptyMap
  /\ ok => DOMAIN metric_datapoints \subseteq archives
  /\ LET batch_size == Cardinality(DOMAIN metric_datapoints)
         ps == BatchPoints(metric_datapoints)
     IN /\ sent' = [p \in DOMAIN sent |-> IF p \in ps THEN sent[p] + 1 ELSE sent[p]]
        /\ IF ok
           THEN LET rl == RateLimit(batch_size, now)
                    h1 == HistCommit(HistUpdate(hist, DOMAIN metric_datapoints), batch_size)
                IN /\ fate' = SetFate(fate, ps, "committed")
                   /\ instrumentation' = CountBatch(instrumentation, metric_datapoints)
                   /\ updates' = rl.updates
                   /\ lastSecond' = rl.lastSecond
                   /\ IF rl.sleep
                      THEN Advance(1) /\ hist' = HistAdvance(h1, 1)
                      ELSE UNCHANGED clockVars /\ hist' = h1
           ELSE /\ fate' = SetFate(fate, ps, "failed")
                /\ instrumentation' = CountError(instrumentation)
                /\ hist' = [HistUpdate(hist, DOMAIN metric_datapoints) EXCEPT
                              !.raised = TRUE]
                /\ UNCHANGED <<clockVars, rateVars>>
  /\ metric_datapoints' = EmptyMap
  /\ pc' = "drain"
  /\ UNCHANGED <<envVars, cacheVars, archives, createVars, genVars, cur, dataWritten>>

\* writer.py:160 and :194-195, nothing to write in a batch: sleep 0.1 s if the
\* pass yielded nothing, then test the cache again
PassEnd ==
  /\ pc = "post"
  /\ metric_datapoints = EmptyMap
  /\ pc' = "drain"
  /\ UNCHANGED <<envVars, clockVars, cacheVars, archives, createVars, genVars, cur,
                 passVars, rateVars, instrumentation, fate, sent, hist>>

\* ------------------------------------------------------------ specifications
Next ==
  \/ \E metric \in Metrics : Store(metric)
  \/ Tick(1)
  \/ WriteForever
  \/ Sleep
  \/ CacheEmpty
  \/ StartPass
  \/ OptimalWriteOrderStep
  \/ OptimalWriteOrderDone
  \/ NoSchemaMatch
  \/ CreateRaises
  \/ \E co \in CreateOutcomes \cup {"none"} : Accumulate(co)
  \/ \E co \in CreateOutcomes \cup {"none"}, ok \in BOOLEAN : UpdateMany(co, ok)
  \/ \E ok \in BOOLEAN : BatchUpdateMany(ok)
  \/ PassEnd

\* the writer in non-batched mode with schemas that match every metric
NextCreates ==
  \/ \E metric \in Metrics : Store(metric)
  \/ \E d \in TickSteps : Tick(d)
  \/ WriteForever
  \/ Sleep
  \/ CacheEmpty
  \/ StartPass
  \/ OptimalWriteOrderStep
  \/ OptimalWriteOrderDone
  \/ CreateRaises
  \/ \E co \in CreateOutcomes \cup {"none"}, ok \in BOOLEAN : UpdateMany(co, ok)
  \/ PassEnd

\* the writer with schemas that match every metric
NextCache ==
  \/ \E metric \in Metrics : Store(metric)
  \/ Tick(1)
  \/ WriteForever
  \/ Sleep
  \/ CacheEmpty
  \/ StartPass
  \/ OptimalWriteOrderStep
  \/ OptimalWriteOrderDone
  \/ CreateRaises
  \/ \E co \in CreateOutcomes \cup {"none"} : Accumulate(co)
  \/ \E co \in CreateOutcomes \cup {"none"}, ok \in BOOLEAN : UpdateMany(co, ok)
  \/ \E ok \in BOOLEAN : BatchUpdateMany(ok)
  \/ PassEnd

\* the steps of the writer thread
WriterStep ==
  \/ WriteForever
  \/ Sleep
  \/ CacheEmpty
  \/ StartPass
  \/ OptimalWriteOrderStep
  \/ OptimalWriteOrderDone
  \/ \E co \in CreateOutcomes \cup {"none"} : Accumulate(co)
  \/ \E co \in CreateOutcomes \cup {"none"}, ok \in BOOLEAN : UpdateMany(co, ok)
  \/ \E ok \in BOOLEAN : BatchUpdateMany(ok)
  \/ PassEnd

\* the writer of metrics that all have an archive, the receiver that may go on
\* for ever, and the shutdown
NextStop ==
  \/ \E metric \in Metrics : Refill(metric)
  \/ ReceiverStops
  \/ Stop
  \/ WriterStep

\* the writer and the two reload timers
NextReload ==
  \/ \E metric \in Metrics : Store(metric)
  \/ \E load \in LoadOutcomes({NewSchemas, PartialSchemas}) : ReloadStorageSchemas(load)
  \/ \E load \in LoadOutcomes({SumAggSchemas}) : ReloadAggregationSchemas(load)
  \/ NoSchemaMatch
  \/ CreateRaises
  \/ WriterStep

Spec == Init /\ [][Next]_vars
SpecCreates == InitCreates /\ [][NextCreates]_vars
SpecCache == InitCache /\ [][NextCache]_vars
SpecReload == InitReload /\ [][NextReload]_vars
\* the writer thread is scheduled again and again; nothing is assumed of the receiver
SpecStop == InitStop /\ [][NextStop]_vars /\ WF_vars(WriterStep)

\* ------------------------------------------------------------ properties
\* the datapoints queued in the cache
Cached == UNION {PointsOf(m, cache[m]) : m \in Metrics}

\* the datapoints the writer has popped and still holds in the current pass
Held == PointsOf(cur.metric, cur.datapoints) \cup BatchPoints(metric_datapoints)

\* the datapoints with one of the given fates
WithFate(fs) == {p \in DOMAIN fate : fate[p] \in fs}

\* C1 as stated: every datapoint the writer has popped was committed by an update
\* call that succeeded, or was discarded by the create-budget branch, or is still in
\* the cache (or in the writer's hands on its way to the update call)
C1_OnlyThreePaths ==
  \A p \in DOMAIN fate : fate[p] \in {"cache", "held", "committed", "budget"}

\* C1 amended: every ingested datapoint is in exactly one of these conditions: in the
\* cache; popped and held by the writer in the current pass; committed by an update
\* call that succeeded; carried by an update call that raised; discarded by the
\* create-budget branch; discarded, in no update call, when an exception ended the
\* pass that held it (no storage schema for its metric, create raising for its
\* metric, or either of these for another metric while it sat in the batch map)
C1_Conservation ==
  /\ DOMAIN fate = UNION {{<<m, k>> : k \in 1..stored[m]} : m \in Metrics}
  /\ \A p \in DOMAIN fate :
       /\ fate[p] \in {"cache", "held", "committed", "failed", "budget",
                       "noschema", "createraise", "aborted"}
       /\ (fate[p] = "cache") <=> (p \in Cached)
       /\ (fate[p] = "held") <=> (p \in Held)
       /\ fate[p] \in {"committed", "failed"} => sent[p] = 1
       /\ fate[p] \notin {"committed", "failed"} => sent[p] = 0

\* C1 witness: datapoints have been popped and one was committed, one was carried by
\* an update call that raised, one was discarded by the create budget
C1_Witness ==
  /\ WithFate({"committed"}) # {}
  /\ WithFate({"failed"}) # {}
  /\ WithFate({"budget"}) # {}

\* writeCachedDataPoints has returned with the cache empty
Drained == pc = "sleep" /\ ~CacheNonEmpty(cache) /\ Held = {}

\* no backend call has raised and no new metric was without a storage schema
NoError == ~hist.raised /\ WithFate({"noschema", "createraise", "aborted"}) = {}

\* C2 as stated: after a complete drain in which no backend call raised and every new
\* metric matched a storage schema, every ingested datapoint is in exactly one
\* update payload
C2_DrainWritesAll ==
  (Drained /\ NoError) => \A p \in DOMAIN sent : sent[p] = 1

\* C2 amended: after a complete drain in which no backend call raised, every new
\* metric matched a storage schema and the create budget discarded nothing, every
\* ingested datapoint is in exactly one update payload, and that call committed it
C2_DrainWritesAllUnlessBudget ==
  (Drained /\ NoError /\ WithFate({"budget"}) = {}) =>
     \A p \in DOMAIN sent : sent[p] = 1 /\ fate[p] = "committed"

\* C2 witness: every ingest event of the run was drained without error or budget
\* drop, a new archive having been created on the way
C2_Witness ==
  /\ Drained /\ NoError /\ WithFate({"budget"}) = {}
  /\ ingestLeft = 0
  /\ instrumentation.creates > 0
  /\ instrumentation.committedPoints = MaxPoints

\* C3 as stated: a popped datapoint that was never committed was lost because the
\* create budget was exceeded, because the update call that carried it raised, or
\* because its own metric matched no storage schema; in particular no datapoint of
\* a metric with a schema and without a failed update call is lost because another
\* metric of the pass raised
C3_LossOnlyOwnFault == WithFate({"aborted"}) = {}

\* C4 as stated: the commits made in one wall-clock second (update_many calls that
\* succeeded, metrics written by batch_update_many) number at most
\* MAX_UPDATES_PER_SECOND
C4_CommitsPerSecond == hist.secPeak <= settings.MAX_UPDATES_PER_SECOND

C6_CreateCountBounded == createCount <= settings.MAX_CREATES_PER_MINUTE

\* C6 amended: whenever the scheduler has yielded a metric without archive for
\* creation, createCount is 1 (the window was just reset) or below
\* MAX_CREATES_PER_MINUTE
C6_CreateCountAtYield ==
  (pc = "body" /\ ~cur.dbFileExists) =>
     (createCount = 1 \/ createCount < settings.MAX_CREATES_PER_MINUTE)

\* C6 witness: a new metric yielded as the last one the budget admits
C6_Witness ==
  /\ pc = "body" /\ ~cur.dbFileExists
  /\ createCount = settings.MAX_CREATES_PER_MINUTE - 1
  /\ createCount > 1

\* C7 as stated: from a fresh create window, a pass over three metrics without
\* archive, one datapoint each, with MAX_CREATES_PER_MINUTE = 2, ends with create
\* called for two of them, the datapoint of the third discarded, creates = 2 and
\* errors = 0
C7_FirstTwoCreated ==
  ( /\ pc = "post"
    /\ settings.MAX_CREATES_PER_MINUTE = 2
    /\ \A m \in Metrics : stored[m] = 1
    /\ createCount = 3
    /\ Len(hist.yielded) + Cardinality(WithFate({"budget"})) = 3
    /\ NoError )
  => /\ instrumentation.creates = 2
     /\ instrumentation.errors = 0
     /\ Cardinality(WithFate({"budget"})) = 1

NonIncreasing(q) == \A i \in 1..Len(q) - 1 : q[i] >= q[i + 1]

\* C9: in non-batched mode the metrics yielded in one pass come in non-increasing
\* order of the queue sizes of the snapshot
C9_LargestQueueFirst ==
  ~settings.ENABLE_BATCHED_WRITES => NonIncreasing(hist.yielded)

\* C9 witness: a pass that yielded a queue of two datapoints and then a queue of one
C9_Witness == ~settings.ENABLE_BATCHED_WRITES /\ hist.yielded = <<2, 1>>

C11_UpdateFailureIsLocal ==
  [][( /\ ~settings.ENABLE_BATCHED_WRITES
       /\ pc = "body"
       /\ \E p \in DOMAIN fate : fate[p] = "held" /\ fate'[p] = "failed" )
     => /\ instrumentation'.errors = instrumentation.errors + 1
        /\ instrumentation'.committedPoints = instrumentation.committedPoints
        /\ cache' = cache
        /\ \A p \in PointsOf(cur.metric, cur.datapoints) : fate'[p] = "failed"
        /\ pc' = "gen"
        /\ metrics' = metrics]_vars

\* C11 witness: a pass whose first metric (two datapoints) had its update_many raise
\* and whose next metric (one datapoint) was then committed
C11_Witness ==
  /\ ~settings.ENABLE_BATCHED_WRITES
  /\ pc = "gen"
  /\ hist.yielded = <<2, 1>>
  /\ Cardinality(WithFate({"failed"})) = 2
  /\ instrumentation.errors = 1
  /\ instrumentation.committedPoints = 1

C13_StopLeadsToExit ==
  (~running /\ ticks = 0) ~> (pc = "exited" \/ ticks = MaxTicks)

\* C13 amended: once the stop signal has been given and the receiver has stopped
\* adding datapoints, the writer eventually exits writeForever
C13_StopLeadsToExitOnceReceiverStops ==
  (~running /\ feed = {} /\ ticks = 0) ~> (pc = "exited")

\* C13 witness: the stop signal came while the writer held a popped metric, the
\* receiver stopped, and the writer has exited
C13_Witness ==
  /\ pc = "exited"
  /\ hist.stopPc = "body"
  /\ feed = {}
  /\ ~CacheNonEmpty(cache)

\* C14: a step in which a schema reload fails to parse its file (the failure is
\* logged, which reloadFails counts) leaves both published sequences, both reload
\* timers and the writer thread as they were
C14_FailedReloadKeepsSchemas ==
  [][(hist'.reloadFails = hist.reloadFails + 1)
     => /\ schemas' = schemas
        /\ agg_schemas' = agg_schemas
        /\ timers' = timers
        /\ timers = {"storage", "aggregation"}
        /\ pc' = pc
        /\ running' = running]_vars

\* C14 witness: a reload published a new storage sequence, the next reload failed,
\* and the writer then resolved a new metric against the sequence still published
C14_Witness ==
  /\ hist.lastReload = "failed"
  /\ hist.reloads = MaxReloads
  /\ hist.reloadFails = 1
  /\ schemas = NewSchemas
  /\ hist.lookup # <<>>
  /\ hist.lookup[1].published = NewSchemas
  /\ pc # "exited"

\* C15 as stated: a step in which backend.create raises an error other than
\* already-exists for the new metric adds 1 to errors, leaves creates alone, and
\* issues no update for the metric: its datapoints go into no update_many payload
\* and into no batch entry
C15_CreateErrorSkipsMetric ==
  [][((\E ok \in BOOLEAN : UpdateMany("oserror", ok)) \/ Accumulate("oserror"))
     => /\ instrumentation'.errors = instrumentation.errors + 1
        /\ instrumentation'.creates = instrumentation.creates
        /\ sent' = sent
        /\ metric_datapoints' = metric_datapoints]_vars

\* C16: a step in which the yielded new metric matches no storage schema ends the
\* writeCachedDataPoints call: nothing more is popped from the cache, nothing is
\* passed to an update call, backend.create is not called, the rest of the snapshot
\* is abandoned and control is at the sleep of writeForever; from that sleep the
\* writer goes, one second later, to the loop test only, and it exits only when
\* reactor.running is false
C16_NoSchemaEndsTheCall ==
  [][/\ ( /\ pc = "body"
          /\ \E p \in DOMAIN fate : fate[p] = "held" /\ fate'[p] = "noschema" )
        => /\ cache' = cache
           /\ sent' = sent
           /\ archives' = archives
           /\ hist'.createCalls = hist.createCalls
           /\ instrumentation' = instrumentation
           /\ metrics' = <<>>
           /\ pc' = "sleep"
     /\ (pc = "sleep" /\ pc' # "sleep") => (pc' = "idle" /\ now' = now + 1)
     /\ (pc = "idle" /\ pc' # "idle") => (pc' = IF running THEN "drain" ELSE "exited")
    ]_vars

\* C16 witness: a metric matched no storage schema while others waited in the
\* snapshot, and after the sleep of one second the writer is in a new pass with
\* another metric yielded
C16_Witness ==
  /\ WithFate({"noschema"}) # {}
  /\ pc = "body"
  /\ ticks = 1
  /\ now = StartTime + 1
  /\ cur.metric \in {"A", "B"}
  /\ <<cur.metric, 1>> \in WithFate({"held"})
  /\ ingestLeft > 0

\* the step is a batch_update_many call that carries the whole batch map: every
\* metric yielded in the pass with its datapoints; if it succeeds committedPoints
\* grows by the datapoints of the map and batchSizes gets the number of metrics
\* appended, if it raises errors grows by exactly 1
BatchCallOfThePass ==
  /\ pc = "post"
  /\ Cardinality(DOMAIN metric_datapoints) = Len(hist.yielded)
  /\ WithFate({"held"}) = BatchPoints(metric_datapoints)
  /\ \A p \in BatchPoints(metric_datapoints) : sent'[p] = sent[p] + 1
  /\ \/ /\ instrumentation'.committedPoints =
             instrumentation.committedPoints + Cardinality(BatchPoints(metric_datapoints))
        /\ instrumentation'.batchSizes =
             Append(instrumentation.batchSizes, Len(hist.yielded))
        /\ instrumentation'.errors = instrumentation.errors
     \/ /\ instrumentation'.errors = instrumentation.errors + 1
        /\ instrumentation'.committedPoints = instrumentation.committedPoints
        /\ instrumentation'.batchSizes = instrumentation.batchSizes

\* the step ends a scheduler pass of the writer
PassEnds == pc \in {"gen", "body", "post"} /\ pc' \in {"drain", "sleep"}

\* C17 as stated: in batched mode datapoints reach the backend in batch calls only,
\* every pass that yielded at least one metric ends with the one batch call that
\* carries the whole map, and a pass that yielded nothing ends without a call
C17_OneBatchPerPass ==
  [][settings.ENABLE_BATCHED_WRITES =>
       /\ (\E p \in DOMAIN sent : sent'[p] > sent[p]) => pc = "post"
       /\ PassEnds => IF hist.yielded = <<>>
                      THEN sent' = sent /\ instrumentation' = instrumentation
                      ELSE BatchCallOfThePass]_vars

\* C17 amended: in batched mode datapoints reach the backend in batch calls only;
\* every pass in which the scheduler is exhausted after yielding at least one metric
\* ends with the one batch call that carries the whole map; a pass that yielded
\* nothing ends without a call; a pass that an exception ends (no storage schema,
\* create raising) issues no batch call and changes no counter
C17_OneBatchPerCompletedPass ==
  [][settings.ENABLE_BATCHED_WRITES =>
       /\ (\E p \in DOMAIN sent : sent'[p] > sent[p]) => pc = "post"
       /\ (PassEnds /\ pc' = "drain") =>
             IF hist.yielded = <<>>
             THEN sent' = sent /\ instrumentation' = instrumentation
             ELSE BatchCallOfThePass
       /\ (PassEnds /\ pc' = "sleep") =>
             /\ pc = "body"
             /\ sent' = sent
             /\ instrumentation' = instrumentation]_vars

\* C17 witness: a batch of two metrics and three datapoints was committed in one call
C17_Witness ==
  /\ settings.ENABLE_BATCHED_WRITES
  /\ instrumentation.batchSizes = <<2>>
  /\ instrumentation.committedPoints = 3
  /\ instrumentation.errors = 0
  /\ Cardinality(WithFate({"committed"})) = 3

\* the storage-schema sequences that are ever published
Published == {DefaultSchemas, PartialSchemas, NewSchemas}

C19_FirstBatchCharged ==
  [][( /\ instrumentation'.committedPoints > instrumentation.committedPoints
       /\ now # lastSecond )
     => /\ lastSecond' = now
        /\ updates' = IF settings.ENABLE_BATCHED_WRITES
                      THEN Cardinality(DOMAIN metric_datapoints)
                      ELSE 0]_vars

\* C20: no datapoint is passed to a backend update call (update_many or
\* batch_update_many) more than once, and no metric is in more than one update call
\* of one scheduler pass
C20_NoDoubleWrite ==
  /\ \A p \in DOMAIN sent : sent[p] <= 1
  /\ \A m \in Metrics : hist.passCalls[m] <= 1

\* C20 witness: two datapoints of one metric went out in two passes, the first in an
\* update call that raised and the second in one that committed, each once, while a
\* datapoint of another metric was discarded by the create budget
C20_Witness ==
  /\ stored["A"] = 2
  /\ sent[<<"A", 1>>] = 1 /\ fate[<<"A", 1>>] = "failed"
  /\ sent[<<"A", 2>>] = 1 /\ fate[<<"A", 2>>] = "committed"
  /\ hist.passCalls["A"] = 1
  /\ WithFate({"budget"}) # {}

====
